---------------------------- MODULE Spec2Model ----------------------------
(***************************************************************************)
(* State-machine model of the iacsec pipeline: the post-filter engine      *)
(* (packages/postfilter_llm/engine.py: registry, artifact cache, process-  *)
(* wide loaded model, predict) and the scan command (apps/cli/main.py:     *)
(* triage split, model load, scoring, export, blocking decision).          *)
(*                                                                         *)
(* Floats are fixed point: a score or threshold n stands for n / ScoreDen. *)
(* Python's None is the record NONE; an optional value is NONE or a record *)
(* of another shape.  File contents are opaque byte strings named by a     *)
(* string; SHA-256 is modelled as an injective digest of the content.      *)
(***************************************************************************)
EXTENDS Integers, Sequences, FiniteSets, TLC

VARIABLES
    \* ---- environment of the engine
    registry_exists,   \* models/registry.yaml is present
    remote,            \* what each registry URI serves: a content or Unavailable
    files,             \* the cache directory: file name -> content or Absent
    \* ---- engine.py process state
    LOADED_MODEL,      \* engine._LOADED_MODEL
    handles,           \* every ModelHandle constructed so far (history)
    downloads,         \* number of _download_file invocations so far
    last,              \* outcome of the most recent load_model call
    last_ok,           \* handle the most recent successful load_model returned (history)
    predicted,         \* outcome of the most recent library-level predict call
    calls,             \* number of library-level calls made (bounded)
    \* ---- scan command state
    pc,                \* position of scan
    opts,              \* CLI options of the run
    glitch_out,        \* snapshot of what run_glitch returned (history)
    raw_detections,    \* the list scan iterates (objects mutated in place)
    idx,               \* triage loop position
    category_a, category_a_preds, category_b,
    model,             \* handle bound by scan at line 126
    postfiltered,      \* result of predict
    detections, predictions,   \* merged lists
    reports,           \* report files written: path -> document
    outputs,           \* the dict _export_results returned: format -> path
    table_printed,     \* rows of the rich table printed to the console
    blocking,          \* result of _blocking_findings
    exit_code,         \* process exit code of scan, NONE while running
    error,             \* which phase raised, "" if none
    phases,            \* phases of scan that returned normally, in order (history)
    built              \* a library-level _build_csv_rows call: arguments and result

engine_vars == <<registry_exists, remote, files, LOADED_MODEL, handles, downloads, last,
                 last_ok, predicted, calls>>
scan_vars == <<pc, opts, glitch_out, raw_detections, idx, category_a, category_a_preds,
               category_b, model, postfiltered, detections, predictions, reports,
               outputs, table_printed, blocking, exit_code, error, phases>>
vars == <<engine_vars, scan_vars, built>>

-----------------------------------------------------------------------------
(* Bounds *)

MaxDets == 2          \* longest detector output considered
MaxCalls == 4         \* engine calls (load_model, predict) per process

-----------------------------------------------------------------------------
(* Python values *)

NONE == [none |-> TRUE]

\* dict.get(key, default)
Get(d, key, default) == IF key \in DOMAIN d THEN d[key] ELSE default

\* bool(v) for the values evidence carries
Truthy(v) == v \notin {"False", "0", "", "None"}

Range(s) == {s[i] : i \in 1..Len(s)}

-----------------------------------------------------------------------------
(* engine.py : digests *)

Absent == "<absent>"
Unavailable == "<unavailable>"
Contents == {"wA", "wB"}

HexLen == 64

\* hashlib.sha256(bytes).hexdigest(): 64 hex characters, injective in the content
sha256_hexdigest(content) == [len |-> HexLen, hex |-> TRUE, of |-> content]

\* _is_hex_digest(value)
_is_hex_digest(value) ==
    IF value = NONE \/ value.len = 0 \/ value.len # HexLen THEN FALSE
    ELSE value.hex

\* _verify_sha(path, expected) on the file system fs
_verify_sha(fs, path, expected) ==
    IF fs[path] = Absent THEN FALSE
    ELSE sha256_hexdigest(fs[path]) = expected

-----------------------------------------------------------------------------
(* engine.py : registry *)

\* The parsed models/registry.yaml.  Two entries share the URI basename
\* model.bin; the third has a URI without a path and a malformed digest.
RegistryDoc == <<
    [name |-> "codet5p-220m",
     uri |-> [scheme |-> "https", path |-> <<"models", "model.bin">>],
     version |-> "1.0", sha256 |-> sha256_hexdigest("wA"),
     framework |-> "torch", default_threshold |-> 2],
    [name |-> "IntelliSA-220m",
     uri |-> [scheme |-> "file", path |-> <<"srv", "intellisa", "model.bin">>],
     version |-> "2.0", sha256 |-> sha256_hexdigest("wB"),
     framework |-> "torch", default_threshold |-> 3],
    [name |-> "plain",
     uri |-> [scheme |-> "https", path |-> <<>>],
     sha256 |-> [len |-> 8, hex |-> TRUE, of |-> "wA"]] >>

ModelNames == {"codet5p-220m", "IntelliSA-220m", "plain", "missing"}

\* _load_registry(): entries keyed by name, a later entry replacing an earlier
RECURSIVE RegistryEntries(_, _)
RegistryEntries(doc, n) ==
    IF n = 0 THEN [k \in {} |-> NONE]
    ELSE LET before == RegistryEntries(doc, n - 1)
             entry == doc[n]
         IN [k \in DOMAIN before \cup {entry.name} |->
                IF k = entry.name THEN entry ELSE before[k]]

_load_registry == RegistryEntries(RegistryDoc, Len(RegistryDoc))

URIs == {RegistryDoc[i].uri : i \in 1..Len(RegistryDoc)}

\* _target_path(entry): basename of the URI path, or name-version.bin
_target_path(entry) ==
    LET version == Get(entry, "version", "0")
        path == entry.uri.path
    IN IF Len(path) > 0 THEN <<path[Len(path)]>>
       ELSE <<entry.name, "-", version, ".bin">>

CacheFiles == {_target_path(RegistryDoc[i]) : i \in 1..Len(RegistryDoc)}

\* _download_file(uri, target_path): the file system after it, or the exception
_download_file(uri, target_path, fs) ==
    IF uri.scheme \in {"", "file"}
    THEN IF remote[uri] = Unavailable
         THEN [exc |-> "FileNotFoundError", fs |-> fs]
         ELSE [exc |-> "", fs |-> [fs EXCEPT ![target_path] = remote[uri]]]
    ELSE IF remote[uri] = Unavailable
         THEN [exc |-> "DownloadFailed", fs |-> fs]
         ELSE [exc |-> "", fs |-> [fs EXCEPT ![target_path] = remote[uri]]]

DefaultThreshold == 2      \* 0.5 in units of 1/ScoreDen

\* ModelHandle(...) at engine.py 63-70
ModelHandle(name, entry, target_path) ==
    [name |-> name,
     version |-> Get(entry, "version", "0"),
     path |-> target_path,
     framework |-> Get(entry, "framework", "unknown"),
     default_threshold |-> Get(entry, "default_threshold", DefaultThreshold)]

\* variant of cache_stale: fetch on every call
cache_stale_always(fs, target_path, should_verify, expected_sha) == TRUE

\* engine.py line 56: the cached file is missing or fails verification
cache_stale(fs, target_path, should_verify, expected_sha) ==
    fs[target_path] = Absent
    \/ (should_verify /\ ~_verify_sha(fs, target_path, expected_sha))

\* variant of checksum_mismatch: the download is trusted without a second check
checksum_mismatch_unchecked(fs, target_path, should_verify, expected_sha) == FALSE

\* engine.py line 58: the check made after _download_file returned
checksum_mismatch(fs, target_path, should_verify, expected_sha) ==
    should_verify /\ ~_verify_sha(fs, target_path, expected_sha)

\* variant of installed: a model already loaded is kept
installed_once(lm, handle) == IF lm = NONE THEN handle ELSE lm

\* engine.py lines 72-73: global _LOADED_MODEL; _LOADED_MODEL = handle
installed(lm, handle) == handle

\* load_model(name) run on file system fs with loaded model lm.
\* Result: exc ("" on success), the handle, the file system and the loaded
\* model afterwards, and whether _download_file was invoked.
load_model(name, fs, lm) ==
    IF ~registry_exists
    THEN [exc |-> "FileNotFoundError", handle |-> NONE, fs |-> fs, lm |-> lm, fetched |-> FALSE]
    ELSE LET registry == _load_registry IN
    IF name \notin DOMAIN registry
    THEN [exc |-> "KeyError", handle |-> NONE, fs |-> fs, lm |-> lm, fetched |-> FALSE]
    ELSE LET entry == registry[name]
             uri == entry.uri
             target_path == _target_path(entry)
             expected_sha == Get(entry, "sha256", NONE)
             should_verify == _is_hex_digest(expected_sha)
             handle == ModelHandle(name, entry, target_path)
         IN IF cache_stale(fs, target_path, should_verify, expected_sha)
            THEN LET dl == _download_file(uri, target_path, fs) IN
                 IF dl.exc # ""
                 THEN [exc |-> dl.exc, handle |-> NONE, fs |-> dl.fs, lm |-> lm, fetched |-> TRUE]
                 ELSE IF checksum_mismatch(dl.fs, target_path, should_verify, expected_sha)
                 THEN [exc |-> "ChecksumMismatch", handle |-> NONE, fs |-> dl.fs, lm |-> lm,
                       fetched |-> TRUE]
                 ELSE [exc |-> "", handle |-> handle, fs |-> dl.fs,
                       lm |-> installed(lm, handle), fetched |-> TRUE]
            ELSE [exc |-> "", handle |-> handle, fs |-> fs,
                  lm |-> installed(lm, handle), fetched |-> FALSE]

\* Bookkeeping of one load_model call on the engine state
ApplyLoad(name, r) ==
    /\ files' = r.fs
    /\ LOADED_MODEL' = r.lm
    /\ handles' = IF r.exc = "" THEN handles \cup {r.handle} ELSE handles
    /\ downloads' = downloads + (IF r.fetched THEN 1 ELSE 0)
    /\ last' = [name |-> name, exc |-> r.exc, handle |-> r.handle, fetched |-> r.fetched,
                before |-> files, lm_before |-> LOADED_MODEL, dl_before |-> downloads,
                prev |-> [name |-> last.name, exc |-> last.exc]]
    /\ last_ok' = IF r.exc = "" THEN r.handle ELSE last_ok
    /\ UNCHANGED <<registry_exists, remote, predicted>>

\* A library-level call of engine.load_model (as iacsec/models/fetch.py makes)
LoadModelCall(name) ==
    /\ calls < MaxCalls
    /\ calls' = calls + 1
    /\ ApplyLoad(name, load_model(name, files, LOADED_MODEL))
    /\ UNCHANGED <<scan_vars, built>>

NoLast == [name |-> "", exc |-> "", handle |-> NONE, fetched |-> FALSE,
           before |-> [f \in CacheFiles |-> Absent], lm_before |-> NONE, dl_before |-> 0,
           prev |-> [name |-> "", exc |-> ""]]

ScanIdle ==
    /\ pc = "start" /\ opts = NONE /\ glitch_out = <<>> /\ raw_detections = <<>>
    /\ idx = 1 /\ category_a = <<>> /\ category_a_preds = <<>> /\ category_b = <<>>
    /\ model = NONE /\ postfiltered = <<>> /\ detections = <<>> /\ predictions = <<>>
    /\ reports = <<>> /\ outputs = <<>> /\ table_printed = <<>> /\ blocking = <<>>
    /\ exit_code = NONE /\ error = "" /\ phases = <<>>

NoPredict == [exc |-> "", made |-> FALSE, dets |-> <<>>, threshold |-> NONE,
              predictions |-> <<>>, ok_before |-> NONE]

NoBuild == [made |-> FALSE, root |-> "", tech |-> "", dets |-> <<>>, rows |-> <<>>]

EngineFresh ==
    /\ LOADED_MODEL = NONE
    /\ last_ok = NONE
    /\ predicted = NoPredict
    /\ handles = {}
    /\ downloads = 0
    /\ last = NoLast
    /\ calls = 0

\* A process start: any cache left by earlier runs, any state of the sources
InitEngine ==
    /\ registry_exists \in BOOLEAN
    /\ remote \in [URIs -> Contents \cup {Unavailable}]
    /\ files \in [CacheFiles -> Contents \cup {Absent}]
    /\ EngineFresh
    /\ ScanIdle
    /\ built = NoBuild

NextEngine == \E name \in ModelNames : LoadModelCall(name)

SpecEngine == InitEngine /\ [][NextEngine]_vars

-----------------------------------------------------------------------------
(* schema/models.py : Detection and Prediction *)

EmptyDict == [k \in {} |-> ""]

RuleIds == {"HTTP_NO_TLS", "WEAK_CRYPTO"}
Severities == {"high", "medium"}

\* evidence mappings the detector attaches: no flag, a true flag beside
\* another key, a false flag
EvidenceVariants ==
    {EmptyDict,
     [postfilter |-> "True", cwe |-> "CWE-319"],
     [postfilter |-> "False"]}

\* Detection (smell and tech are carried but never read by the pipeline)
Detection(rule_id, severity, evidence) ==
    [rule_id |-> rule_id,
     file |-> "roles/web/tasks/main.yml",
     line |-> 10,
     snippet |-> "get_url: url=http://example.com",
     message |-> "HTTP used without TLS",
     severity |-> severity,
     evidence |-> evidence]

Detections ==
    {Detection(r, s, e) : r \in RuleIds, s \in Severities, e \in EvidenceVariants}

RECURSIVE SeqsUpTo(_, _)
SeqsUpTo(S, n) ==
    IF n = 0 THEN {<<>>}
    ELSE LET shorter == SeqsUpTo(S, n - 1)
         IN shorter \cup {Append(q, x) : q \in {t \in shorter : Len(t) = n - 1}, x \in S}

DetectionLists == SeqsUpTo(Detections, MaxDets)

Prediction(label, score, rationale) ==
    [label |-> label, score |-> score, rationale |-> rationale]

-----------------------------------------------------------------------------
(* engine.py : scoring *)

ScoreDen == 4        \* stands for 1 << 64: scores are 0 .. ScoreDen-1 over ScoreDen

ScanRoot == "repo"

\* Stand-in for the bytes SHA-256 reads from each serialized field
FieldCode(s) ==
    CASE s = "codet5p-220m" -> 1
      [] s = "IntelliSA-220m" -> 2
      [] s = "plain" -> 3
      [] s = "2.0" -> 1
      [] s = "HTTP_NO_TLS" -> 1
      [] s = "WEAK_CRYPTO" -> 0
      [] OTHER -> 0

\* _stable_score(det, code_dir, model): a deterministic function of the six
\* serialized fields, in [0, 1)
_stable_score(det, code_dir, m) ==
    (FieldCode(m.name) + FieldCode(m.version) + FieldCode(det.rule_id)
     + FieldCode(det.file) + FieldCode(det.snippet) + FieldCode(code_dir)) % ScoreDen

\* variant of effective_threshold_of: "threshold or model.default_threshold"
effective_threshold_falsy(threshold, m) ==
    IF threshold # NONE /\ threshold.value # 0 THEN threshold.value ELSE m.default_threshold

\* threshold if threshold is not None else model.default_threshold
effective_threshold_of(threshold, m) ==
    IF threshold # NONE THEN threshold.value ELSE m.default_threshold

\* the body of predict's loop for one detection
predict_one(det, code_dir, m, effective_threshold) ==
    LET score == _stable_score(det, code_dir, m)
        label == IF score >= effective_threshold THEN "TP" ELSE "FP"
        rationale == IF label = "TP" THEN "score>=threshold" ELSE "score<threshold"
    IN Prediction(label, score, rationale)

\* variant of predict: predictions appended as scoring completes, last first
predict_unordered(dets, code_dir, threshold, lm) ==
    IF lm = NONE
    THEN [exc |-> "NoModelLoaded", predictions |-> <<>>]
    ELSE LET effective_threshold == IF threshold # NONE THEN threshold.value
                                    ELSE lm.default_threshold
         IN [exc |-> "",
             predictions |-> [i \in 1..Len(dets) |->
                                 predict_one(dets[Len(dets) + 1 - i], code_dir, lm,
                                             effective_threshold)]]

\* predict(detections, code_dir, threshold) with engine._LOADED_MODEL = lm
predict(dets, code_dir, threshold, lm) ==
    IF lm = NONE
    THEN [exc |-> "NoModelLoaded", predictions |-> <<>>]
    ELSE LET effective_threshold == effective_threshold_of(threshold, lm)
         IN [exc |-> "",
             predictions |-> [i \in 1..Len(dets) |->
                                 predict_one(dets[i], code_dir, lm, effective_threshold)]]

-----------------------------------------------------------------------------
(* engine.py : a process that calls load_model and predict in any order *)

\* what a caller hands to predict
PredictInputs ==
    {<<>>,
     <<Detection("HTTP_NO_TLS", "medium", EmptyDict)>>,
     <<Detection("WEAK_CRYPTO", "high", EmptyDict), Detection("HTTP_NO_TLS", "medium", EmptyDict)>>}

\* A library-level call of engine.predict
PredictCall(dets, threshold) ==
    /\ calls < MaxCalls
    /\ calls' = calls + 1
    /\ LET r == predict(dets, ScanRoot, threshold, LOADED_MODEL)
       IN predicted' = [exc |-> r.exc, made |-> TRUE, dets |-> dets, threshold |-> threshold,
                        predictions |-> r.predictions, ok_before |-> last_ok]
    /\ UNCHANGED <<registry_exists, remote, files, LOADED_MODEL, handles, downloads, last,
                   last_ok>>
    /\ UNCHANGED <<scan_vars, built>>

\* sources and cache of a process whose artifacts are published correctly,
\* wrongly, or not at all
ProcessRemotes ==
    {[u \in URIs |-> Unavailable],
     [u \in URIs |-> "wA"],
     [u \in URIs |-> IF u.scheme = "file" THEN "wB" ELSE "wA"]}

InitProcess ==
    /\ registry_exists = TRUE
    /\ remote \in ProcessRemotes
    /\ files \in [CacheFiles -> {"wA", Absent}]
    /\ EngineFresh
    /\ ScanIdle
    /\ built = NoBuild

NextProcess ==
    \/ \E name \in ModelNames : LoadModelCall(name)
    \/ \E dets \in PredictInputs, threshold \in {NONE, [value |-> 3]} :
          PredictCall(dets, threshold)

SpecProcess == InitProcess /\ [][NextProcess]_vars

-----------------------------------------------------------------------------
(* main.py : options *)

UNREAD == [unread |-> TRUE]

_VALID_TECH == {"auto", "ansible", "chef", "puppet"}
_VALID_FORMATS == {"sarif", "json", "table", "csv"}

\* str.lower() on the format names and file suffixes considered
Lower(s) == IF s = "SARIF" THEN "sarif" ELSE IF s = ".YML" THEN ".yml" ELSE s

\* _normalize_formats(values): the list, or exc for typer.BadParameter
RECURSIVE NormalizeFrom(_, _, _)
NormalizeFrom(values, i, normalized) ==
    IF i > Len(values) THEN [exc |-> "", value |-> normalized]
    ELSE LET fmt == Lower(values[i]) IN
         IF fmt \notin _VALID_FORMATS THEN [exc |-> "BadParameter", value |-> <<>>]
         ELSE NormalizeFrom(values, i + 1,
                            IF fmt \notin Range(normalized) THEN Append(normalized, fmt)
                            ELSE normalized)

_normalize_formats(values) ==
    IF Len(values) = 0 THEN [exc |-> "", value |-> <<"sarif">>]
    ELSE NormalizeFrom(values, 1, <<>>)

TechOptions == {"auto", "terraform"}
FormatOptions == {<<>>, <<"json">>, <<"SARIF", "json", "sarif">>,
                  <<"json", "csv", "table">>, <<"xml">>}
ThresholdOptions == {NONE, [value |-> 0], [value |-> 3]}
PostfilterOptions == {"codet5p-220m", "IntelliSA-220m", "missing"}

Exit(code) == [code |-> code]

-----------------------------------------------------------------------------
(* exporters and main.py : _export_results *)

\* pathlib.Path of a report: everything before the final suffix, and the suffix
OutOptions == {[stem |-> "artifacts/iacsec", suffix |-> ".sarif"],
               [stem |-> "out/scan", suffix |-> ".jsonl"]}

with_suffix(path, suffix) == [path EXCEPT !.suffix = suffix]

\* writing (truncating) one file
WriteFile(fs, path, doc) ==
    [q \in DOMAIN fs \cup {path} |-> IF q = path THEN doc ELSE fs[q]]

Min(a, b) == IF a <= b THEN a ELSE b

\* list(zip(detections, predictions))
Zip(dets, preds) == [i \in 1..Min(Len(dets), Len(preds)) |-> <<dets[i], preds[i]>>]

\* sarif.py line 6: the parameters to_sarif declares
to_sarif_params == {"detections", "predictions"}

\* main.py lines 252-257: the keyword arguments the call passes
to_sarif_keywords == {"tool_name", "tool_version"}

\* to_sarif(detections, predictions): sarif.py lines 6-21
to_sarif(dets, preds) ==
    [version |-> "2.1.0",
     runs |-> << [tool |-> [driver |-> [name |-> "iacsec (pilot)", version |-> "0.0.0"]],
                  results |-> <<>>] >>]

\* write_jsonl: one record per zipped pair
jsonl_lines(dets, preds, threshold, model_name) ==
    LET pairs == Zip(dets, preds)
    IN [i \in 1..Len(pairs) |->
           [detection |-> pairs[i][1], prediction |-> pairs[i][2],
            threshold |-> threshold, model |-> model_name]]

CATEGORY_LABELS ==
    [r \in {"HTTP_NO_TLS", "WEAK_CRYPTO", "HARDCODED_SECRET"} |->
        CASE r = "HTTP_NO_TLS" -> "Use of HTTP without SSL/TLS"
          [] r = "WEAK_CRYPTO" -> "Weak cryptography algorithm"
          [] OTHER -> "Hard-coded secret"]

_FILE_EXTENSIONS ==
    [t \in {"ansible", "chef", "puppet"} |->
        CASE t = "ansible" -> {".yml", ".yaml"}
          [] t = "chef" -> {".rb"}
          [] OTHER -> {".pp"}]

AllExtensions == UNION {_FILE_EXTENSIONS[t] : t \in DOMAIN _FILE_EXTENSIONS}

\* The files under the scan root, relative, in ascending string order
RepoTree == << [path |-> "Deploy.YML", suffix |-> ".YML"],
               [path |-> "README.md", suffix |-> ".md"],
               [path |-> "roles/db/tasks/main.yml", suffix |-> ".yml"],
               [path |-> "roles/web/tasks/main.yml", suffix |-> ".yml"],
               [path |-> "site.pp", suffix |-> ".pp"] >>

\* position of a path in ascending string order
PathRank(p) == CHOOSE i \in 1..Len(RepoTree) : RepoTree[i].path = p

\* the scan roots considered: the directory holding RepoTree, one file of
\* it, and a path that does not exist
ScanRoots == {"repo", "repo/site.pp", "missing"}
is_file(root) == root = "repo/site.pp"
exists(root) == root \in {"repo", "repo/site.pp"}
\* Path.name
name(root) == IF root = "repo/site.pp" THEN "site.pp" ELSE root

\* _collect_candidate_files(root, tech): the candidate paths, as sorted()
\* lists them
_collect_candidate_files(root, tech) ==
    LET extensions == IF tech = "auto" THEN AllExtensions
                      ELSE IF tech \in DOMAIN _FILE_EXTENSIONS /\ _FILE_EXTENSIONS[tech] # {}
                           THEN _FILE_EXTENSIONS[tech]
                           ELSE AllExtensions
        Candidate(f) == Lower(f.suffix) \in extensions
        IsRoot(f) == f.path = name(root)
    IN IF is_file(root) THEN SelectSeq(RepoTree, IsRoot)
       ELSE IF ~exists(root) THEN <<>>
       ELSE SelectSeq(RepoTree, Candidate)

\* key of rows.sort: (row[0], row[1])
RowLE(a, b) ==
    \/ PathRank(a[1]) < PathRank(b[1])
    \/ PathRank(a[1]) = PathRank(b[1]) /\ a[2] <= b[2]

\* list.sort is stable: a row goes after the rows whose key is not greater
RECURSIVE InsertRow(_, _)
InsertRow(sorted, row) ==
    IF sorted = <<>> THEN <<row>>
    ELSE IF RowLE(sorted[Len(sorted)], row) THEN Append(sorted, row)
    ELSE Append(InsertRow(SubSeq(sorted, 1, Len(sorted) - 1), row), sorted[Len(sorted)])

RECURSIVE SortRows(_, _)
SortRows(rows, n) ==
    IF n = 0 THEN <<>> ELSE InsertRow(SortRows(rows, n - 1), rows[n])

\* variant of _build_csv_rows: every candidate gets a "none" row
_build_csv_rows_every_candidate(root, tech, dets) ==
    LET hit_rows == [i \in 1..Len(dets) |->
                        <<dets[i].file, dets[i].line,
                          Get(CATEGORY_LABELS, dets[i].rule_id, dets[i].message)>>]
        cands == _collect_candidate_files(root, tech)
        none_rows == [i \in 1..Len(cands) |-> <<cands[i].path, 0, "none">>]
        rows == hit_rows \o none_rows
    IN SortRows(rows, Len(rows))

\* _build_csv_rows(root, tech, detections)
_build_csv_rows(root, tech, dets) ==
    LET hit_rows == [i \in 1..Len(dets) |->
                        <<dets[i].file, dets[i].line,
                          Get(CATEGORY_LABELS, dets[i].rule_id, dets[i].message)>>]
        seen_files == {dets[i].file : i \in 1..Len(dets)}
        Unseen(f) == f.path \notin seen_files
        unseen == SelectSeq(_collect_candidate_files(root, tech), Unseen)
        none_rows == [i \in 1..Len(unseen) |-> <<unseen[i].path, 0, "none">>]
        rows == hit_rows \o none_rows
    IN SortRows(rows, Len(rows))

\* write_csv(path, rows): the rows, without a header
write_csv(fs, path, rows) == WriteFile(fs, path, [format |-> "csv", body |-> rows])

\* the rich table of main.py lines 275-291
table_rows(dets, preds) ==
    LET pairs == Zip(dets, preds)
    IN [i \in 1..Len(pairs) |->
           <<pairs[i][1].rule_id, pairs[i][1].severity, pairs[i][2].label,
             pairs[i][2].score, <<pairs[i][1].file, ":", pairs[i][1].line>> >>]

\* main.py lines 259 and 262: the SARIF document goes to out itself
sarif_path(out, fmt_set) == out

\* main.py line 265
json_path(out, fmt_set) ==
    IF out.suffix = ".jsonl" /\ fmt_set = {"json"} THEN out ELSE with_suffix(out, ".jsonl")

\* main.py line 270
csv_path(out, fmt_set) ==
    IF out.suffix = ".csv" /\ fmt_set = {"csv"} THEN out ELSE with_suffix(out, ".csv")

\* _export_results(...) on the report files fs.  The call of to_sarif passes
\* keywords the function does not declare, which raises TypeError before
\* anything is written.
_export_results(dets, preds, formats, out, m, threshold, scan_root, tech, fs) ==
    LET fmt_set == Range(formats)
        model_descriptor == <<m.name, "@", m.version>>
    IN IF "sarif" \in fmt_set /\ ~(to_sarif_keywords \subseteq to_sarif_params)
       THEN [exc |-> "TypeError", fs |-> fs, outputs |-> <<>>, table |-> <<>>]
       ELSE
       LET fs1 == IF "sarif" \in fmt_set
                  THEN WriteFile(fs, sarif_path(out, fmt_set),
                                 [format |-> "sarif", body |-> to_sarif(dets, preds)])
                  ELSE fs
           out1 == IF "sarif" \in fmt_set
                   THEN WriteFile(<<>>, "sarif", sarif_path(out, fmt_set)) ELSE <<>>
           fs2 == IF "json" \in fmt_set
                  THEN WriteFile(fs1, json_path(out, fmt_set),
                                 [format |-> "jsonl",
                                  body |-> jsonl_lines(dets, preds, threshold, model_descriptor)])
                  ELSE fs1
           out2 == IF "json" \in fmt_set
                   THEN WriteFile(out1, "json", json_path(out, fmt_set)) ELSE out1
           fs3 == IF "csv" \in fmt_set
                  THEN write_csv(fs2, csv_path(out, fmt_set),
                                 _build_csv_rows(scan_root, tech, dets))
                  ELSE fs2
           out3 == IF "csv" \in fmt_set
                   THEN WriteFile(out2, "csv", csv_path(out, fmt_set)) ELSE out2
           table == IF "table" \in fmt_set THEN table_rows(dets, preds) ELSE <<>>
       IN [exc |-> "", fs |-> fs3, outputs |-> out3, table |-> table]

\* variant of _blocking_findings: the policy flag is ignored
_blocking_findings_any(dets, preds, fail_on_high) ==
    LET pairs == Zip(dets, preds)
        AnyTP(p) == p[2].label = "TP"
    IN SelectSeq(pairs, AnyTP)

\* _blocking_findings(detections, predictions, fail_on_high)
_blocking_findings(dets, preds, fail_on_high) ==
    LET pairs == Zip(dets, preds)
        HighTP(p) == p[2].label = "TP" /\ p[1].severity = "high"
        AnyTP(p) == p[2].label = "TP"
    IN IF fail_on_high THEN SelectSeq(pairs, HighTP) ELSE SelectSeq(pairs, AnyTP)

-----------------------------------------------------------------------------
(* main.py : scan *)
\* The options of a run are fixed inputs; each is drawn by the step that
\* first reads it and recorded in opts.

NoOpts == [tech |-> "", formats |-> <<>>, postfilter |-> UNREAD,
           threshold |-> UNREAD, out |-> UNREAD, fail_on_high |-> UNREAD]

scan_data == <<glitch_out, raw_detections, idx, category_a, category_a_preds, category_b>>
scan_result == <<model, postfiltered, detections, predictions>>
scan_output == <<reports, outputs, table_printed, blocking>>

\* raise typer.Exit(code) / an exception leaving scan
Leave(code, phase) ==
    /\ pc' = "exited"
    /\ exit_code' = Exit(code)
    /\ error' = phase

\* lines 89-98: option validation
ScanStart(tech, format) ==
    /\ pc = "start"
    /\ opts = NONE
    /\ opts' = [NoOpts EXCEPT !.tech = tech, !.formats = _normalize_formats(format).value]
    /\ IF tech \notin _VALID_TECH \/ _normalize_formats(format).exc # ""
       THEN Leave(2, "BadParameter")
       ELSE pc' = "glitch" /\ UNCHANGED <<exit_code, error>>
    /\ UNCHANGED <<built, engine_vars, scan_data, scan_result, scan_output, phases>>

\* lines 100-108: the detector returns a list
RunGlitch ==
    /\ pc = "glitch"
    /\ \E dets \in DetectionLists :
          /\ glitch_out' = dets
          /\ raw_detections' = dets
    /\ idx' = 1
    /\ category_a' = <<>> /\ category_a_preds' = <<>> /\ category_b' = <<>>
    /\ pc' = "triage"
    /\ phases' = Append(phases, "run_glitch")
    /\ UNCHANGED <<built, engine_vars, opts, scan_result, scan_output, exit_code, error>>

\* lines 102-104: the detector raises
RunGlitchFails ==
    /\ pc = "glitch"
    /\ Leave(2, "run_glitch")
    /\ UNCHANGED <<built, engine_vars, opts, scan_data, scan_result, scan_output, phases>>

\* dict.pop(key, default): the value and the mapping without the key
pop_value(d, key, default) == Get(d, key, default)
\* variant of pop_rest: the key is removed only when its value is truthy
pop_rest_if_truthy(d, key) ==
    IF Truthy(Get(d, key, "False")) THEN [k \in DOMAIN d \ {key} |-> d[k]] ELSE d
pop_rest(d, key) == [k \in DOMAIN d \ {key} |-> d[k]]

\* lines 110-118: one iteration of the triage loop.  det is the object held
\* by raw_detections, so the pop shows in every list that holds it.
TriageStep ==
    /\ pc = "triage"
    /\ idx <= Len(raw_detections)
    /\ LET det == raw_detections[idx]
           needs_postfilter == Truthy(pop_value(det.evidence, "postfilter", "False"))
           popped == [det EXCEPT !.evidence = pop_rest(det.evidence, "postfilter")]
       IN /\ raw_detections' = [raw_detections EXCEPT ![idx] = popped]
          /\ IF needs_postfilter
             THEN /\ category_b' = Append(category_b, popped)
                  /\ UNCHANGED <<category_a, category_a_preds>>
             ELSE /\ category_a' = Append(category_a, popped)
                  /\ category_a_preds' =
                        Append(category_a_preds, Prediction("TP", ScoreDen, "glitch-accepted"))
                  /\ UNCHANGED category_b
    /\ idx' = idx + 1
    /\ UNCHANGED <<built, engine_vars, pc, opts, glitch_out, scan_result, scan_output,
                   exit_code, error, phases>>

\* variant of ScanLoadModel: a load failure is tolerated when nothing needs
\* post-filtering
ScanLoadModel_tolerant(postfilter) ==
    /\ pc = "triage"
    /\ idx > Len(raw_detections)
    /\ opts' = [opts EXCEPT !.postfilter = postfilter]
    /\ LET r == load_model(postfilter, files, LOADED_MODEL)
       IN /\ ApplyLoad(postfilter, r)
          /\ IF r.exc # "" /\ category_b # <<>>
             THEN Leave(2, "load_model") /\ UNCHANGED <<model, phases>>
             ELSE /\ model' = r.handle
                  /\ pc' = "predict"
                  /\ phases' = Append(Append(phases, "triage"), "load_model")
                  /\ UNCHANGED <<exit_code, error>>
    /\ UNCHANGED <<built, calls, scan_data, postfiltered, detections, predictions, scan_output>>

\* lines 120-129: the loop is over; load_model(postfilter)
ScanLoadModel(postfilter) ==
    /\ pc = "triage"
    /\ idx > Len(raw_detections)
    /\ opts' = [opts EXCEPT !.postfilter = postfilter]
    /\ LET r == load_model(postfilter, files, LOADED_MODEL)
       IN /\ ApplyLoad(postfilter, r)
          /\ IF r.exc # ""
             THEN Leave(2, "load_model") /\ UNCHANGED <<model, phases>>
             ELSE /\ model' = r.handle
                  /\ pc' = "predict"
                  /\ phases' = Append(Append(phases, "triage"), "load_model")
                  /\ UNCHANGED <<exit_code, error>>
    /\ UNCHANGED <<built, calls, scan_data, postfiltered, detections, predictions, scan_output>>

\* lines 131-144: predict on category B, then the merge
ScanPredict(threshold) ==
    /\ pc = "predict"
    /\ opts' = [opts EXCEPT !.threshold = threshold]
    /\ LET r == predict(category_b, ScanRoot, threshold, LOADED_MODEL)
       IN IF r.exc # ""
          THEN /\ Leave(2, "predict")
               /\ UNCHANGED <<postfiltered, detections, predictions, phases>>
          ELSE /\ postfiltered' = r.predictions
               /\ detections' = category_a \o category_b
               /\ predictions' = category_a_preds \o r.predictions
               /\ pc' = "export"
               /\ phases' = Append(phases, "predict")
               /\ UNCHANGED <<exit_code, error>>
    /\ UNCHANGED <<built, engine_vars, scan_data, model, scan_output>>

\* lines 146-155: _export_results; an exception it raises is not caught by
\* scan and ends the process with a traceback (exit code 1)
ScanExport(out) ==
    /\ pc = "export"
    /\ opts' = [opts EXCEPT !.out = out]
    /\ LET r == _export_results(detections, predictions, opts.formats, out, model,
                                effective_threshold_of(opts.threshold, model),
                                ScanRoot, opts.tech, reports)
       IN /\ reports' = r.fs
          /\ outputs' = r.outputs
          /\ table_printed' = r.table
          /\ IF r.exc # ""
             THEN Leave(1, "export") /\ UNCHANGED phases
             ELSE /\ pc' = "decide"
                  /\ phases' = Append(phases, "export")
                  /\ UNCHANGED <<exit_code, error>>
    /\ UNCHANGED <<built, engine_vars, scan_data, scan_result, blocking>>

\* lines 157-163: the blocking decision
ScanDecide(fail_on_high) ==
    /\ pc = "decide"
    /\ opts' = [opts EXCEPT !.fail_on_high = fail_on_high]
    /\ blocking' = _blocking_findings(detections, predictions, fail_on_high)
    /\ phases' = Append(phases, "decide")
    /\ IF _blocking_findings(detections, predictions, fail_on_high) # <<>>
       THEN Leave(1, "")
       ELSE Leave(0, "")
    /\ UNCHANGED <<built, engine_vars, scan_data, scan_result, reports, outputs, table_printed>>

\* The sources a scan runs against
ScanRemotes ==
    {[u \in URIs |-> Unavailable],
     [u \in URIs |-> IF u.scheme = "file" THEN "wB" ELSE "wA"]}

\* One invocation of the scan command in a fresh process
Init ==
    /\ registry_exists = TRUE
    /\ remote \in ScanRemotes
    /\ files = [f \in CacheFiles |-> Absent]
    /\ EngineFresh
    /\ ScanIdle
    /\ built = NoBuild

Next ==
    \/ \E tech \in TechOptions, format \in FormatOptions : ScanStart(tech, format)
    \/ RunGlitch
    \/ RunGlitchFails
    \/ TriageStep
    \/ \E postfilter \in PostfilterOptions : ScanLoadModel(postfilter)
    \/ \E threshold \in ThresholdOptions : ScanPredict(threshold)
    \/ \E out \in OutOptions : ScanExport(out)
    \/ \E fail_on_high \in BOOLEAN : ScanDecide(fail_on_high)

Spec == Init /\ [][Next]_vars

-----------------------------------------------------------------------------
(* main.py : _build_csv_rows called on its own *)

CsvTechs == {"auto", "ansible", "chef", "puppet", "terraform"}

\* detections as the detector reports them: repo-relative file, line (0 for
\* a file-level finding), rule id with or without a category label
CsvDetections ==
    {[Detection(r, "medium", EmptyDict) EXCEPT !.file = f, !.line = l] :
        r \in {"HTTP_NO_TLS", "CUSTOM_RULE"},
        f \in {"README.md", "roles/web/tasks/main.yml", "site.pp"},
        l \in {0, 10}}

InitCsv ==
    /\ registry_exists = TRUE
    /\ remote = [u \in URIs |-> Unavailable]
    /\ files = [f \in CacheFiles |-> Absent]
    /\ EngineFresh
    /\ ScanIdle
    /\ \E root \in ScanRoots, tech \in CsvTechs, dets \in SeqsUpTo(CsvDetections, MaxDets) :
          built = [made |-> FALSE, root |-> root, tech |-> tech, dets |-> dets, rows |-> <<>>]

BuildCsvRows ==
    /\ ~built.made
    /\ built' = [built EXCEPT !.made = TRUE,
                              !.rows = _build_csv_rows(built.root, built.tech, built.dets)]
    /\ UNCHANGED <<engine_vars, scan_vars>>

NextCsv == BuildCsvRows

SpecCsv == InitCsv /\ [][NextCsv]_vars

-----------------------------------------------------------------------------
(* Properties of scan *)

\* what the properties say of the detector's output, stated on the snapshot
Flagged(det) ==
    "postfilter" \in DOMAIN det.evidence /\ Truthy(det.evidence["postfilter"])
NotFlagged(det) == ~Flagged(det)
WithoutFlag(det) ==
    [det EXCEPT !.evidence = [k \in DOMAIN det.evidence \ {"postfilter"} |-> det.evidence[k]]]
WithoutFlags(dets) == [i \in 1..Len(dets) |-> WithoutFlag(dets[i])]

ExpectedA == WithoutFlags(SelectSeq(glitch_out, NotFlagged))
ExpectedB == WithoutFlags(SelectSeq(glitch_out, Flagged))

TriageDone == "run_glitch" \in Range(phases) /\ idx > Len(raw_detections)
Merged == "predict" \in Range(phases)
ExportAttempted == Merged /\ pc # "export"
Decided == "decide" \in Range(phases)

\* C1: once scan has merged the lists, they have the same length, the
\* category-A pairs come first, each category keeps the detector's order, and
\* prediction i is the one made for detection i.
C1_PairingOrder ==
    Merged =>
        /\ Len(detections) = Len(predictions)
        /\ detections = ExpectedA \o ExpectedB
        /\ \A i \in 1..Len(detections) :
              IF i <= Len(ExpectedA)
              THEN predictions[i] = Prediction("TP", ScoreDen, "glitch-accepted")
              ELSE /\ predictions[i].rationale # "glitch-accepted"
                   /\ predictions[i].score = _stable_score(detections[i], ScanRoot, LOADED_MODEL)

\* C1 witness: a flagged detection came first in the detector's output and an
\* unflagged one last, so the merge reorders them.
C1_Witness ==
    /\ Merged
    /\ Len(glitch_out) >= 2
    /\ Flagged(glitch_out[1])
    /\ NotFlagged(glitch_out[Len(glitch_out)])
    /\ Len(category_a) >= 1 /\ Len(category_b) >= 1

\* C2: when routing is done, category B holds exactly the detections whose
\* evidence carried a truthy postfilter value, and no detection held by any
\* list or written to a report carries the postfilter key any more.
C2_RoutingConsumesFlag ==
    TriageDone =>
        /\ category_b = ExpectedB
        /\ category_a = ExpectedA
        /\ \A d \in Range(raw_detections) \cup Range(category_a) \cup Range(category_b)
                    \cup Range(detections) :
              "postfilter" \notin DOMAIN d.evidence
        /\ \A path \in DOMAIN reports :
              reports[path].format = "jsonl" =>
                 \A i \in 1..Len(reports[path].body) :
                    "postfilter" \notin DOMAIN reports[path].body[i].detection.evidence

\* C2 witness: a run that exported a JSONL report of two detections, one that
\* carried a false flag and one that carried a truthy flag.
C2_Witness ==
    /\ pc = "exited" /\ error = ""
    /\ \E i, j \in 1..Len(glitch_out) :
          /\ "postfilter" \in DOMAIN glitch_out[i].evidence /\ NotFlagged(glitch_out[i])
          /\ Flagged(glitch_out[j])
    /\ \E path \in DOMAIN reports :
          reports[path].format = "jsonl" /\ Len(reports[path].body) = Len(glitch_out)

\* C3: every prediction predict returned is TP exactly when the detection's
\* score is at least the effective threshold (the override when one is given,
\* 0 included, else the loaded model's default), with the matching rationale.
C3_ThresholdDecision ==
    Merged =>
        /\ Len(postfiltered) = Len(category_b)
        /\ \A i \in 1..Len(postfiltered) :
              LET p == postfiltered[i]
                  eff == IF opts.threshold = NONE THEN LOADED_MODEL.default_threshold
                         ELSE opts.threshold.value
              IN /\ p.score = _stable_score(category_b[i], ScanRoot, LOADED_MODEL)
                 /\ p.label = "TP" <=> p.score >= eff
                 /\ p.label = "FP" <=> p.score < eff
                 /\ p.label = "TP" => p.rationale = "score>=threshold"
                 /\ p.label = "FP" => p.rationale = "score<threshold"

\* C3 witness: an override of 0 is in force, and a detection whose score
\* equals it, below the model's default, was labelled TP.
C3_Witness ==
    /\ Merged
    /\ opts.threshold = [value |-> 0]
    /\ \E i \in 1..Len(postfiltered) :
          /\ postfiltered[i].score = 0
          /\ postfiltered[i].score < LOADED_MODEL.default_threshold
          /\ postfiltered[i].label = "TP"

\* indices of the merged pairs the policy calls blocking
BlockingIndices ==
    {i \in 1..Len(detections) :
        /\ i <= Len(predictions)
        /\ predictions[i].label = "TP"
        /\ opts.fail_on_high => detections[i].severity = "high"}

\* the k-th smallest blocking index
KthBlocking(k) ==
    CHOOSE i \in BlockingIndices : Cardinality({j \in BlockingIndices : j <= i}) = k

\* C4: the blocking list is exactly the TP pairs (the high-severity TP pairs
\* under fail_on_high), in order, and a scan that decided exits with 0 when
\* the list is empty and with 1 otherwise.
C4_BlockingDecision ==
    Decided =>
        /\ Len(blocking) = Cardinality(BlockingIndices)
        /\ \A k \in 1..Len(blocking) :
              blocking[k] = <<detections[KthBlocking(k)], predictions[KthBlocking(k)]>>
        /\ exit_code = Exit(0) <=> blocking = <<>>
        /\ exit_code = Exit(1) <=> blocking # <<>>

\* C4 witness: under fail_on_high, a high TP pair and a medium TP pair: one
\* blocking pair, exit code 1.
C4_Witness ==
    /\ Decided
    /\ opts.fail_on_high = TRUE
    /\ Len(detections) = 2
    /\ \A i \in 1..2 : predictions[i].label = "TP"
    /\ {detections[i].severity : i \in 1..2} = {"high", "medium"}
    /\ Len(blocking) = 1
    /\ exit_code = Exit(1)

\* C8: a failure of the detector, of load_model or of predict ends scan with
\* exit code 2 and nothing written; a load failure does so whatever the
\* detector returned; and export is reached only after the detector, the
\* triage, the model load and the scoring returned, in that order.
C8_FailuresAbort ==
    /\ error \in {"run_glitch", "load_model", "predict"} =>
          /\ pc = "exited" /\ exit_code = Exit(2)
          /\ DOMAIN reports = {} /\ table_printed = <<>>
    /\ (last.name # "" /\ last.exc # "") =>
          /\ pc = "exited" /\ error = "load_model" /\ exit_code = Exit(2)
    /\ (pc \in {"export", "decide"} \/ error = "export" \/ Decided
        \/ DOMAIN reports # {} \/ table_printed # <<>>) =>
          /\ Len(phases) >= 4
          /\ SubSeq(phases, 1, 4) = <<"run_glitch", "triage", "load_model", "predict">>
          /\ last.exc = "" /\ model = last.handle /\ LOADED_MODEL = model

\* C8 witness: the model load failed in a run whose detections were all
\* accepted without post-filtering.
C8_Witness ==
    /\ pc = "exited" /\ error = "load_model" /\ exit_code = Exit(2)
    /\ Len(glitch_out) >= 1
    /\ category_b = <<>>
    /\ DOMAIN reports = {}

\* C9: when sarif is requested, the document written to the output path has
\* one result per merged pair, in order, with the detection's rule id.
C9_SarifResults ==
    (ExportAttempted /\ "sarif" \in Range(opts.formats)) =>
        /\ opts.out \in DOMAIN reports
        /\ reports[opts.out].format = "sarif"
        /\ LET results == reports[opts.out].body.runs[1].results
           IN /\ Len(results) = Len(detections)
              /\ \A i \in 1..Len(results) : results[i].ruleId = detections[i].rule_id

\* C10: a run on a single detection in which the post-filter predicted no TP
\* exits with code 0 and leaves the SARIF file behind.
C10_SingleFPExitsZero ==
    (/\ pc = "exited" /\ Merged
     /\ Len(glitch_out) = 1
     /\ "sarif" \in Range(opts.formats)
     /\ \A i \in 1..Len(postfiltered) : postfiltered[i].label = "FP") =>
        /\ exit_code = Exit(0)
        /\ opts.out \in DOMAIN reports
        /\ reports[opts.out].format = "sarif"

-----------------------------------------------------------------------------
(* Properties of the artifact cache *)

LastEntry == _load_registry[last.name]
LastTarget == _target_path(LastEntry)
LastDeclared == Get(LastEntry, "sha256", NONE)
LastResolved == registry_exists /\ last.name \in DOMAIN _load_registry

\* the call found the cached file present, with a digest other than a valid
\* declared one
FoundCorrupt ==
    /\ LastResolved
    /\ _is_hex_digest(LastDeclared)
    /\ last.before[LastTarget] # Absent
    /\ sha256_hexdigest(last.before[LastTarget]) # LastDeclared

\* the call found the cached file present and, when a valid digest is
\* declared, matching it
FoundIntact ==
    /\ LastResolved
    /\ last.before[LastTarget] # Absent
    /\ _is_hex_digest(LastDeclared) => sha256_hexdigest(last.before[LastTarget]) = LastDeclared

\* C5: a call that finds the cached file corrupt fetches again; when what it
\* fetched does not match the declared digest either, it fails with a
\* checksum mismatch, returns no handle and leaves the loaded model as it was.
C5_ChecksumEnforced ==
    FoundCorrupt =>
        /\ last.fetched
        /\ downloads = last.dl_before + 1
        /\ (/\ remote[LastEntry.uri] # Unavailable
            /\ sha256_hexdigest(remote[LastEntry.uri]) # LastDeclared) =>
              /\ last.exc = "ChecksumMismatch"
              /\ last.handle = NONE
              /\ LOADED_MODEL = last.lm_before
              /\ last.handle \notin handles

\* C5 witness: with a model loaded, a later call found a corrupt cache file,
\* fetched bytes that do not match, and failed.
C5_Witness ==
    /\ FoundCorrupt
    /\ last.exc = "ChecksumMismatch"
    /\ last.lm_before # NONE
    /\ LOADED_MODEL = last.lm_before

\* C6: a call that finds the cached file intact does not invoke
\* _download_file and leaves the cache as it found it.
C6_IntactCacheNoFetch ==
    FoundIntact =>
        /\ ~last.fetched
        /\ downloads = last.dl_before
        /\ files = last.before
        /\ last.exc = ""

\* C6 witness: the second of two calls for the same entry, the first of which
\* fetched the artifact.
C6_Witness ==
    /\ calls = 2
    /\ FoundIntact
    /\ last.prev = [name |-> last.name, exc |-> ""]
    /\ downloads = 1
    /\ ~last.fetched

\* C7: every handle constructed so far points at an existing file whose
\* digest is the one its registry entry declares, when that is a valid one.
C7_HandlesStayVerified ==
    \A h \in handles :
        LET declared == Get(_load_registry[h.name], "sha256", NONE)
        IN /\ files[h.path] # Absent
           /\ _is_hex_digest(declared) => sha256_hexdigest(files[h.path]) = declared

-----------------------------------------------------------------------------
(* Properties of the process-wide loaded model *)

\* C11: the model predict uses is the handle the most recent successful
\* load_model returned (a failed load leaves it alone), and predict fails
\* with no-model-loaded exactly when no load_model has succeeded before it.
C11_LastLoadWins ==
    /\ LOADED_MODEL = last_ok
    /\ (last.name # "" /\ last.exc # "") => LOADED_MODEL = last.lm_before
    /\ (last.name # "" /\ last.exc = "") => LOADED_MODEL = last.handle
    /\ predicted.made =>
          /\ predicted.exc = "NoModelLoaded" <=> predicted.ok_before = NONE
          /\ predicted.exc \in {"", "NoModelLoaded"}
          /\ predicted.exc = "" =>
                /\ Len(predicted.predictions) = Len(predicted.dets)
                /\ \A i \in 1..Len(predicted.dets) :
                      LET m == predicted.ok_before
                          eff == IF predicted.threshold = NONE THEN m.default_threshold
                                 ELSE predicted.threshold.value
                          score == _stable_score(predicted.dets[i], ScanRoot, m)
                      IN /\ predicted.predictions[i].score = score
                         /\ predicted.predictions[i].label = "TP" <=> score >= eff

\* C11 witness: two different models were loaded, then a load failed, then
\* predict scored with the second model.
C11_Witness ==
    /\ predicted.made /\ predicted.exc = ""
    /\ Len(predicted.dets) >= 1
    /\ Cardinality(handles) = 2
    /\ last.exc # "" /\ last.name # ""
    /\ last.lm_before # NONE
    /\ predicted.ok_before = last.lm_before
    /\ \E h \in handles :
          h # predicted.ok_before
          /\ _stable_score(predicted.dets[1], ScanRoot, h)
               # _stable_score(predicted.dets[1], ScanRoot, predicted.ok_before)

-----------------------------------------------------------------------------
(* Properties of the report paths *)

FileFormats == {"sarif", "json", "csv"}
Requested == Range(opts.formats) \cap FileFormats
SuffixOf(f) == IF f = "sarif" THEN ".sarif" ELSE IF f = "json" THEN ".jsonl" ELSE ".csv"
DocFormat(f) == IF f = "json" THEN "jsonl" ELSE f

\* C12: when more than one file format is requested, every requested format
\* is written, no two formats share a path, and a format goes to the --out
\* path itself only when the suffix matches and it is the only format, and
\* otherwise to that path with the format's suffix.
C12_DistinctPaths ==
    (ExportAttempted /\ Cardinality(Requested) >= 2) =>
        /\ DOMAIN outputs = Requested
        /\ \A f \in Requested :
              /\ outputs[f] \in DOMAIN reports
              /\ reports[outputs[f]].format = DocFormat(f)
              /\ outputs[f] = IF opts.out.suffix = SuffixOf(f) /\ Range(opts.formats) = {f}
                              THEN opts.out
                              ELSE with_suffix(opts.out, SuffixOf(f))
        /\ \A f, g \in Requested : f # g => outputs[f] # outputs[g]

-----------------------------------------------------------------------------
(* Properties of the CSV rows *)

Count(rows, r) == Cardinality({i \in 1..Len(rows) : rows[i] = r})
SeenFiles == {built.dets[i].file : i \in 1..Len(built.dets)}
CandidatePaths ==
    LET cands == _collect_candidate_files(built.root, built.tech)
    IN {cands[i].path : i \in 1..Len(cands)}
HitRow(det) ==
    <<det.file, det.line,
      IF det.rule_id \in DOMAIN CATEGORY_LABELS THEN CATEGORY_LABELS[det.rule_id]
      ELSE det.message>>
HitRows == [i \in 1..Len(built.dets) |-> HitRow(built.dets[i])]
NoneRowsAt == {i \in 1..Len(built.rows) : built.rows[i][3] = "none"}

\* C13: the rows are one (file, line, label) row per detection and one
\* (file, 0, "none") row per candidate file without a detection, none for a
\* file with a detection, in ascending order of (file, line).
C13_CsvRows ==
    built.made =>
        /\ Len(built.rows) = Len(built.dets) + Cardinality(CandidatePaths \ SeenFiles)
        /\ \A r \in Range(HitRows) : Count(built.rows, r) = Count(HitRows, r)
        /\ \A f \in CandidatePaths \ SeenFiles : Count(built.rows, <<f, 0, "none">>) = 1
        /\ \A i \in NoneRowsAt : built.rows[i][1] \notin SeenFiles /\ built.rows[i][2] = 0
        /\ \A i, j \in 1..Len(built.rows) :
              i < j => \/ PathRank(built.rows[i][1]) < PathRank(built.rows[j][1])
                       \/ /\ built.rows[i][1] = built.rows[j][1]
                          /\ built.rows[i][2] <= built.rows[j][2]

\* C13 witness: three candidate files, one detection, in one of them: one
\* hit row between two "none" rows.
C13_Witness ==
    /\ built.made
    /\ Cardinality(CandidatePaths) = 3
    /\ Len(built.dets) = 1
    /\ SeenFiles \subseteq CandidatePaths
    /\ Len(built.rows) = 3
    /\ Cardinality(NoneRowsAt) = 2
    /\ built.rows[3] = HitRow(built.dets[1])

=============================================================================
